---- MODULE Spec2Model ----
(***************************************************************************)
(* Monte Carlo tree search (src/src/mcts.rs) over the two games of the     *)
(* repository, tic-tac-toe (src/src/ttt.rs) and Connect 4                  *)
(* (src/src/connect4.rs).                                                  *)
(*                                                                         *)
(* Conventions.  Rust's Option<T> is a sequence of length 0 (None) or 1    *)
(* (Some(x) = <<x>>).  A Vec is a sequence, except the boards, which keep  *)
(* the source's 0-based indices as functions over 0..k.  A HashMap is a    *)
(* function whose domain is its key set.  An Rc<RefCell<Node>> is the      *)
(* sequence of actions leading from the root to the node (the root is      *)
(* <<>>): siblings come from distinct legal actions, so this is a faithful *)
(* pointer identity inside one tree.                                       *)
(***************************************************************************)
EXTENDS Integers, Sequences, FiniteSets, TLC

VARIABLES
    ttt,            \* rules of tic-tac-toe: the ttt.rs State being played
    c4,             \* rules of Connect 4: the connect4.rs State being played
    c4moves,        \* rules of Connect 4: number of moves applied so far
    tree,           \* the search tree: node identity -> Node
    pc,             \* position in play / best_action
    n_simulations,  \* best_action: its argument
    sim,            \* best_action: iterations of the for loop completed
    current_node,   \* select_node: current_node
    leaf_node,      \* best_action: leaf_node (an Option while there is none)
    current_state,  \* rollout: current_state
    result,         \* best_action: result
    current_node_option, \* backpropagate: current_node_option
    current_result, \* backpropagate: current_result
    play_action,    \* play: action, the value best_action returned (an Option)
    current_pos,    \* play: current_pos
    expanded        \* history: the nodes Node::expand has populated

rules  == <<ttt, c4, c4moves>>
locals == <<current_node, leaf_node, current_state, result,
            current_node_option, current_result>>
vars   == <<ttt, c4, c4moves, tree, pc, n_simulations, sim, current_node,
            leaf_node, current_state, result, current_node_option,
            current_result, play_action, current_pos, expanded>>

None == <<>>
Some(x) == <<x>>

(***************************************************************************)
(* ttt.rs                                                                  *)
(***************************************************************************)

\* State::new
T_new ==
    [board |-> [i \in 0..2 |-> [j \in 0..2 |-> " "]], player |-> "X"]

\* State::get_result without the check of the diagonal (0,2),(1,1),(2,0)
T_get_result_one_diagonal(s) ==
    IF \E i \in 0..2 :
          \/ s.board[i][0] = s.board[i][1] /\ s.board[i][1] = s.board[i][2] /\ s.board[i][0] # " "
          \/ s.board[0][i] = s.board[1][i] /\ s.board[1][i] = s.board[2][i] /\ s.board[0][i] # " "
    THEN -1
    ELSE IF s.board[0][0] = s.board[1][1] /\ s.board[1][1] = s.board[2][2] /\ s.board[0][0] # " "
         THEN -1
         ELSE 0

\* State::get_result
T_get_result(s) ==
    IF \E i \in 0..2 :
          \/ s.board[i][0] = s.board[i][1] /\ s.board[i][1] = s.board[i][2] /\ s.board[i][0] # " "
          \/ s.board[0][i] = s.board[1][i] /\ s.board[1][i] = s.board[2][i] /\ s.board[0][i] # " "
    THEN -1
    ELSE IF \/ s.board[0][0] = s.board[1][1] /\ s.board[1][1] = s.board[2][2] /\ s.board[0][0] # " "
            \/ s.board[0][2] = s.board[1][1] /\ s.board[1][1] = s.board[2][0] /\ s.board[0][2] # " "
         THEN -1
         ELSE 0

\* State::is_terminal without the test for a full board
T_is_terminal_no_draw(s) ==
    T_get_result(s) # 0

\* State::is_terminal
T_is_terminal(s) ==
    T_get_result(s) # 0 \/ \A i \in 0..2 : \A j \in 0..2 : s.board[i][j] # " "

\* State::get_player_turn
T_get_player_turn(s) ==
    IF s.player = "X" THEN 1 ELSE -1

\* the (i, j) pairs in the order of the nested enumerate() loops
T_cells ==
    << <<0, 0>>, <<0, 1>>, <<0, 2>>,
       <<1, 0>>, <<1, 1>>, <<1, 2>>,
       <<2, 0>>, <<2, 1>>, <<2, 2>> >>

\* State::get_legal_actions
T_get_legal_actions(s) ==
    LET empty(c) == s.board[c[1]][c[2]] = " "
    IN  SelectSeq(T_cells, empty)

\* An f64 is held in fixed point, as an integer number of units of 1/Scale
\* (1e-8); Half * Half = Scale.
Half == 100 * 100
Scale == Half * Half

\* State::get_policy
T_get_policy(s, actions) ==
    [i \in 1..Len(actions) |-> Scale \div Len(actions)]

\* State::get_next_state
T_get_next_state(s, a) ==
    [board  |-> [s.board EXCEPT ![a[1]][a[2]] = s.player],
     player |-> IF s.player = "X" THEN "O" ELSE "X"]

(***************************************************************************)
(* connect4.rs                                                             *)
(***************************************************************************)

\* State::new
C_new ==
    [board |-> [r \in 0..5 |-> [c \in 0..6 |-> " "]], player |-> "X"]

\* State::get_top_row with rposition in place of position: the highest
\* empty row of the column
C_get_top_row_highest(s, col) ==
    LET rows == {r \in 0..5 : s.board[r][col] = " "}
    IN  IF rows = {} THEN None
        ELSE Some(CHOOSE r \in rows : \A o \in rows : r >= o)

\* State::get_top_row
C_get_top_row(s, col) ==
    LET rows == {r \in 0..5 : s.board[r][col] = " "}
    IN  IF rows = {} THEN None
        ELSE Some(CHOOSE r \in rows : \A o \in rows : r <= o)

\* State::get_result
C_get_result(s) ==
    LET b == s.board
        horizontal ==
            \E row \in 0..5 : \E col \in 0..3 :
                /\ b[row][col] # " "
                /\ b[row][col] = b[row][col + 1]
                /\ b[row][col] = b[row][col + 2]
                /\ b[row][col] = b[row][col + 3]
        vertical ==
            \E row \in 0..2 : \E col \in 0..6 :
                /\ b[row][col] # " "
                /\ b[row][col] = b[row + 1][col]
                /\ b[row][col] = b[row + 2][col]
                /\ b[row][col] = b[row + 3][col]
        diagonal ==
            \E row \in 0..2 : \E col \in 0..6 :
                \/ /\ col <= 3
                   /\ b[row][col] # " "
                   /\ b[row][col] = b[row + 1][col + 1]
                   /\ b[row][col] = b[row + 2][col + 2]
                   /\ b[row][col] = b[row + 3][col + 3]
                \/ /\ col >= 3
                   /\ b[row][col] # " "
                   /\ b[row][col] = b[row + 1][col - 1]
                   /\ b[row][col] = b[row + 2][col - 2]
                   /\ b[row][col] = b[row + 3][col - 3]
    IN  IF horizontal \/ vertical \/ diagonal THEN -1 ELSE 0

\* State::is_terminal
C_is_terminal(s) ==
    C_get_result(s) # 0 \/ \A r \in 0..5 : \A c \in 0..6 : s.board[r][c] # " "

\* State::get_player_turn
C_get_player_turn(s) ==
    IF s.player = "X" THEN 1 ELSE -1

\* State::get_legal_actions
C_get_legal_actions(s) ==
    LET open(col) == s.board[5][col] = " "
    IN  SelectSeq(<<0, 1, 2, 3, 4, 5, 6>>, open)

\* State::get_next_state
C_get_next_state(s, action) ==
    LET top == C_get_top_row(s, action)
    IN  [board  |-> IF top # None
                    THEN [s.board EXCEPT ![top[1]][action] = s.player]
                    ELSE s.board,
         player |-> IF s.player = "X" THEN "O" ELSE "X"]

\* get_policy: the score of one action, 100, plus 300 if it wins, plus 200 if
\* it takes the cell where the opponent would win
C_score(s, action) ==
    LET other == [s EXCEPT !.player = IF s.player = "X" THEN "O" ELSE "X"]
    IN  100 + (IF C_get_result(C_get_next_state(s, action)) # 0 THEN 300 ELSE 0)
            + (IF C_get_result(C_get_next_state(other, action)) # 0 THEN 200 ELSE 0)

\* get_policy dividing each score by the sum of the scores, without the
\* exponential
C_get_policy_linear(s, actions) ==
    LET scores == [i \in 1..Len(actions) |-> C_score(s, actions[i])]
        total == LET sum[i \in 0..Len(actions)] ==
                         IF i = 0 THEN 0 ELSE sum[i - 1] + scores[i]
                 IN  sum[Len(actions)]
    IN  [i \in 1..Len(actions) |->
            ((scores[i] * (Scale \div 100)) \div total) * 100]

\* State::get_policy: the softmax of the scores.  Scores differ by multiples
\* of 100, so exp(s - max_score) is 1.0 for a maximal score and at most
\* e^-100 (3.8e-44) for any other; the f64 sum of the exponentials is then
\* exactly the number k of maximal scores, a maximal score gets the weight
\* 1/k, and any other gets a weight that is positive and below 1e-43.  Such
\* a weight is held as one unit (1e-8): positive, and below 1e-6.
C_get_policy(s, actions) ==
    LET scores == {<<i, C_score(s, actions[i])>> : i \in 1..Len(actions)}
        max_score == CHOOSE m \in {p[2] : p \in scores} :
                        \A p \in scores : p[2] <= m
        sum_exp_scores == Cardinality({p \in scores : p[2] = max_score})
    IN  [i \in 1..Len(actions) |->
            IF <<i, max_score>> \in scores THEN Scale \div sum_exp_scores ELSE 1]

Range(seq) == {seq[i] : i \in DOMAIN seq}

(***************************************************************************)
(* mcts.rs                                                                 *)
(***************************************************************************)

\* the Rust type of a state: the State of ttt.rs has a board of 3 rows, the
\* State of connect4.rs one of 6
is_ttt(s) == DOMAIN s.board = 0..2

\* trait GameState: a call is dispatched on the type of the state
is_terminal(s) == IF is_ttt(s) THEN T_is_terminal(s) ELSE C_is_terminal(s)
get_player_turn(s) == IF is_ttt(s) THEN T_get_player_turn(s) ELSE C_get_player_turn(s)
get_legal_actions(s) == IF is_ttt(s) THEN T_get_legal_actions(s) ELSE C_get_legal_actions(s)
get_policy(s, actions) == IF is_ttt(s) THEN T_get_policy(s, actions) ELSE C_get_policy(s, actions)
get_next_state(s, a) == IF is_ttt(s) THEN T_get_next_state(s, a) ELSE C_get_next_state(s, a)
get_result(s) == IF is_ttt(s) THEN T_get_result(s) ELSE C_get_result(s)

\* the root of a tree (the Rc the caller holds)
root == <<>>

\* HashMap::get(k).unwrap_or(d)
get_or(map, k, d) == IF k \in DOMAIN map THEN map[k] ELSE d

\* Node::new
Node_new(state, parent, parent_action) ==
    LET actions == get_legal_actions(state)
        weights == get_policy(state, actions)
        last(a) == CHOOSE i \in 1..Len(actions) :
                      /\ actions[i] = a
                      /\ \A j \in 1..Len(actions) : actions[j] = a => j <= i
    IN  [state         |-> state,
         parent        |-> parent,
         parent_action |-> parent_action,
         children      |-> <<>>,
         results       |-> <<>>,
         visit_count   |-> 0,
         action_probs  |-> [a \in Range(actions) |-> weights[last(a)]]]

\* Node::q with +1 for a node that has no visit
q_unvisited_plus_one(self) ==
    IF self.visit_count > 0
    THEN <<get_or(self.results, 1, 0) - get_or(self.results, -1, 0), self.visit_count>>
    ELSE <<1, 1>>

\* Node::q, as the fraction <<numerator, denominator>>
q(self) ==
    IF self.visit_count > 0
    THEN <<get_or(self.results, 1, 0) - get_or(self.results, -1, 0), self.visit_count>>
    ELSE <<-1, 1>>

(***************************************************************************)
(* The f64 arithmetic of uct_score, in fixed point with unit 1/Scale.      *)
(* Equal inputs give equal scores, as in f64, so ties are kept.  Every     *)
(* operation below is within 4e-8 of the f64 value, and two children of    *)
(* one node whose f64 scores differ are at least 2e-6 apart at every visit *)
(* count up to 10 and every uniform prior 1/k, k in 1..9, so the order of  *)
(* the fixed-point scores is the order of the f64 scores.                  *)
(***************************************************************************)

\* x * y of two fixed-point numbers, by halves so that no product leaves
\* the 32-bit integers
fmul(x, y) ==
    LET xh == x \div Half
        xl == x % Half
        yh == y \div Half
        yl == y % Half
    IN  xh * yh + (xh * yl + xl * yh + (xl * yl) \div Half) \div Half

RECURSIVE isqrt_iter(_, _)
isqrt_iter(n, x) ==
    LET y == (x + n \div x) \div 2
    IN  IF y >= x THEN x ELSE isqrt_iter(n, y)

\* f64::sqrt of the integer n: the integer square root r1 of n * Half^2
\* gives four decimals, one Newton correction gives the next four
sqrt_fixed(n) ==
    IF n = 0 THEN 0
    ELSE LET r1 == isqrt_iter(n * Scale, n * Scale)
             rest == n * Scale - r1 * r1
         IN  r1 * Half + (rest * Half) \div (2 * r1)

pb_c_init == 125000000
pb_c_base == 19652

\* ((node_visit + pb_c_base + 1) / pb_c_base).ln(): with
\* x = (node_visit + 1) / pb_c_base, ln(1 + x) = x - x^2/2 + x^3/3 - ...
ln_fixed(node_visit) ==
    LET x == ((node_visit + 1) * Scale) \div pb_c_base
    IN  x - fmul(x, x) \div 2 + fmul(fmul(x, x), x) \div 3

\* uct_score: value_score = (-self.q() + 1.) / 2. of the node me
value_score(me) ==
    ((q(me)[2] - q(me)[1]) * (Scale \div 2)) \div q(me)[2]

\* Node::uct_score of node self of tree t
uct_score(t, self, node_visit) ==
    LET me == t[self]
        action_prob ==
            IF me.parent # None /\ me.parent[1] \in DOMAIN t
            THEN get_or(t[me.parent[1]].action_probs, me.parent_action[1], 0)
            ELSE 0
        pb_c == pb_c_init + ln_fixed(node_visit)
        policy_score ==
            fmul(fmul(sqrt_fixed(node_visit), pb_c), action_prob)
                \div (me.visit_count + 1)
    IN  value_score(me) + policy_score

\* max_by returning the first of several equally maximum elements
max_by_first(keys) ==
    CHOOSE i \in DOMAIN keys :
        /\ \A j \in DOMAIN keys : keys[j] <= keys[i]
        /\ \A j \in DOMAIN keys : j < i => keys[j] < keys[i]

\* Iterator::max_by / max_by_key over a Vec with these keys: the index of the
\* maximum, the last one if several are equally maximum
max_by(keys) ==
    CHOOSE i \in DOMAIN keys :
        /\ \A j \in DOMAIN keys : keys[j] <= keys[i]
        /\ \A j \in DOMAIN keys : j > i => keys[j] < keys[i]

\* Node::best_child of node self of tree t: None where the expect() panics
best_child(t, self) ==
    LET children == t[self].children
        scores == [i \in 1..Len(children) |->
                      uct_score(t, children[i], t[self].visit_count)]
    IN  IF children = <<>> THEN None ELSE Some(children[max_by(scores)])

\* the two assertions of Node::expand
expand_asserts(t, node) ==
    /\ ~is_terminal(t[node].state)
    /\ t[node].children = <<>>

\* Node::expand with the prior compared to 1e6 in place of 1e-6
expand_threshold_1e6(t, node) ==
    LET parent == t[node]
        state  == parent.state
        keep(a) ==
            /\ a \in DOMAIN parent.action_probs
            /\ parent.action_probs[a] \div 1000000 > Scale
        kept == SelectSeq(get_legal_actions(state), keep)
        kids == [i \in 1..Len(kept) |-> Append(node, kept[i])]
    IN  [n \in DOMAIN t \cup Range(kids) |->
            IF n = node
            THEN [parent EXCEPT !.children = parent.children \o kids]
            ELSE IF n \in Range(kids)
                 THEN Node_new(get_next_state(state, n[Len(n)]),
                               Some(node), Some(n[Len(n)]))
                 ELSE t[n]]

\* Node::expand without the test prob > 1e-6: a child for every legal action
expand_no_threshold(t, node) ==
    LET parent == t[node]
        state  == parent.state
        keep(a) == a \in DOMAIN parent.action_probs
        kept == SelectSeq(get_legal_actions(state), keep)
        kids == [i \in 1..Len(kept) |-> Append(node, kept[i])]
    IN  [n \in DOMAIN t \cup Range(kids) |->
            IF n = node
            THEN [parent EXCEPT !.children = parent.children \o kids]
            ELSE IF n \in Range(kids)
                 THEN Node_new(get_next_state(state, n[Len(n)]),
                               Some(node), Some(n[Len(n)]))
                 ELSE t[n]]

\* Node::expand replacing the expanded node by a new node that owns the
\* children (its statistics start again from zero)
expand_fresh_parent(t, node) ==
    LET parent == t[node]
        state  == parent.state
        keep(a) ==
            /\ a \in DOMAIN parent.action_probs
            /\ parent.action_probs[a] > Scale \div 1000000
        kept == SelectSeq(get_legal_actions(state), keep)
        kids == [i \in 1..Len(kept) |-> Append(node, kept[i])]
    IN  [n \in DOMAIN t \cup Range(kids) |->
            IF n = node
            THEN [Node_new(state, parent.parent, parent.parent_action)
                     EXCEPT !.children = kids]
            ELSE IF n \in Range(kids)
                 THEN Node_new(get_next_state(state, n[Len(n)]),
                               Some(node), Some(n[Len(n)]))
                 ELSE t[n]]

\* Node::expand: the tree after expanding node
expand(t, node) ==
    LET parent == t[node]
        state  == parent.state
        keep(a) ==
            /\ a \in DOMAIN parent.action_probs
            /\ parent.action_probs[a] > Scale \div 1000000
        kept == SelectSeq(get_legal_actions(state), keep)
        kids == [i \in 1..Len(kept) |-> Append(node, kept[i])]
    IN  [n \in DOMAIN t \cup Range(kids) |->
            IF n = node
            THEN [parent EXCEPT !.children = parent.children \o kids]
            ELSE IF n \in Range(kids)
                 THEN Node_new(get_next_state(state, n[Len(n)]),
                               Some(node), Some(n[Len(n)]))
                 ELSE t[n]]

RECURSIVE seq_sum(_)
seq_sum(seq) == IF seq = <<>> THEN 0 ELSE seq[1] + seq_sum(Tail(seq))

abs(x) == IF x < 0 THEN -x ELSE x

\* rollout: the assertion on the policy weights, |weight_sum - 1.0| < 1e-6
policy_sums_to_one(weights) ==
    abs(seq_sum(weights) - Scale) < Scale \div 1000000

\* rollout: the indices WeightedIndex can sample (those of positive weight)
sample_indices(weights) == {i \in DOMAIN weights : weights[i] > 0}

\* rollout returning the terminal result as it is, whoever is to move
rollout_result_unflipped(self, current) ==
    get_result(current)

\* rollout: the value returned for a playout that ended in current
rollout_result(self, current) ==
    IF get_player_turn(self.state) = get_player_turn(current)
    THEN get_result(current)
    ELSE -get_result(current)

\* backpropagate with the visit count and the result count updated only on
\* nodes that have a parent (a loop that ends on reaching the root)
backpropagate_node_below_root(n, r) ==
    IF n.parent = None THEN n
    ELSE [n EXCEPT !.visit_count = n.visit_count + 1,
                   !.results = [k \in DOMAIN n.results \cup {r} |->
                                   get_or(n.results, k, 0) + (IF k = r THEN 1 ELSE 0)]]

\* backpropagate with results.insert(current_result, 1) in place of
\* *results.entry(current_result).or_insert(0) += 1
backpropagate_node_insert(n, r) ==
    [n EXCEPT !.visit_count = n.visit_count + 1,
              !.results = [k \in DOMAIN n.results \cup {r} |->
                              IF k = r THEN 1 ELSE n.results[k]]]

\* backpropagate: what one iteration of the loop does to the node it visits
backpropagate_node(n, r) ==
    [n EXCEPT !.visit_count = n.visit_count + 1,
              !.results = [k \in DOMAIN n.results \cup {r} |->
                              get_or(n.results, k, 0) + (IF k = r THEN 1 ELSE 0)]]

\* backpropagate without the flip of current_result
flip_forgotten(r) == r

\* backpropagate: current_result *= -1
flip(r) == r * (-1)

\* best_action returning the action of the least visited child (min_by_key)
best_action_value_min(t, node) ==
    LET children == t[node].children
        counts == [i \in 1..Len(children) |-> 0 - t[children[i]].visit_count]
    IN  IF children = <<>> THEN None
        ELSE t[children[max_by(counts)]].parent_action

\* best_action: the value of its last expression, None where unwrap() panics
best_action_value(t, node) ==
    LET children == t[node].children
        counts == [i \in 1..Len(children) |-> t[children[i]].visit_count]
    IN  IF children = <<>> THEN None
        ELSE t[children[max_by(counts)]].parent_action

(***************************************************************************)
(* One call of best_action(root, n_simulations), step by step.             *)
(***************************************************************************)

\* best_action: the for loop starts another iteration, select_node begins
StartSimulation ==
    /\ pc = "best_action"
    /\ sim < n_simulations
    /\ pc' = "select_node"
    /\ current_node' = Some(root)
    /\ UNCHANGED <<rules, tree, n_simulations, sim, leaf_node, current_state,
                   result, current_node_option, current_result, play_action,
                   current_pos, expanded>>

\* select_node expanding every non-terminal node it meets that was visited
\* at most once, with an expand that has no assertions
SelectNodeStep_expands_again ==
    /\ pc = "select_node"
    /\ LET node == current_node[1]
       IN  IF is_terminal(tree[node].state)
           THEN /\ leaf_node' = Some(node)
                /\ current_node' = None
                /\ current_state' = Some(tree[node].state)
                /\ pc' = "rollout"
                /\ UNCHANGED <<tree, expanded>>
           ELSE IF tree[node].visit_count <= 1
           THEN /\ tree' = expand(tree, node)
                /\ expanded' = expanded \cup {node}
                /\ leaf_node' = best_child(tree', node)
                /\ current_node' = None
                /\ current_state' = Some(tree'[leaf_node'[1]].state)
                /\ pc' = "rollout"
           ELSE /\ current_node' = best_child(tree, node)
                /\ UNCHANGED <<tree, expanded, leaf_node, current_state, pc>>
    /\ UNCHANGED <<rules, n_simulations, sim, result, current_node_option,
                   current_result, play_action, current_pos>>

\* select_node returning the node it has just expanded in place of that
\* node's best child
SelectNodeStep_returns_expanded ==
    /\ pc = "select_node"
    /\ LET node == current_node[1]
       IN  IF is_terminal(tree[node].state)
           THEN /\ leaf_node' = Some(node)
                /\ current_node' = None
                /\ current_state' = Some(tree[node].state)
                /\ pc' = "rollout"
                /\ UNCHANGED <<tree, expanded>>
           ELSE IF tree[node].children = <<>>
           THEN IF ~expand_asserts(tree, node)
                THEN /\ pc' = "panic"
                     /\ UNCHANGED <<tree, expanded, leaf_node, current_node,
                                    current_state>>
                ELSE /\ tree' = expand(tree, node)
                     /\ expanded' = expanded \cup {node}
                     /\ leaf_node' = Some(node)
                     /\ current_node' = None
                     /\ current_state' = Some(tree[node].state)
                     /\ pc' = "rollout"
           ELSE /\ current_node' = best_child(tree, node)
                /\ UNCHANGED <<tree, expanded, leaf_node, current_state, pc>>
    /\ UNCHANGED <<rules, n_simulations, sim, result, current_node_option,
                   current_result, play_action, current_pos>>

\* select_node with a loop that does not test is_terminal: a node without
\* children is expanded whatever its state
SelectNodeStep_ignores_terminal ==
    /\ pc = "select_node"
    /\ LET node == current_node[1]
       IN  IF tree[node].children = <<>>
           THEN IF ~expand_asserts(tree, node)
                THEN /\ pc' = "panic"
                     /\ UNCHANGED <<tree, expanded, leaf_node, current_node,
                                    current_state>>
                ELSE /\ tree' = expand(tree, node)
                     /\ expanded' = expanded \cup {node}
                     /\ IF best_child(tree', node) = None
                        THEN /\ pc' = "panic"
                             /\ UNCHANGED <<leaf_node, current_node, current_state>>
                        ELSE /\ leaf_node' = best_child(tree', node)
                             /\ current_node' = None
                             /\ current_state' = Some(tree'[leaf_node'[1]].state)
                             /\ pc' = "rollout"
           ELSE /\ current_node' = best_child(tree, node)
                /\ UNCHANGED <<tree, expanded, leaf_node, current_state, pc>>
    /\ UNCHANGED <<rules, n_simulations, sim, result, current_node_option,
                   current_result, play_action, current_pos>>

\* select_node: one evaluation of the loop condition and body
SelectNodeStep ==
    /\ pc = "select_node"
    /\ LET node == current_node[1]
       IN  IF is_terminal(tree[node].state)
           THEN \* the loop ends: select_node returns current_node
                /\ leaf_node' = Some(node)
                /\ current_node' = None
                /\ current_state' = Some(tree[node].state)
                /\ pc' = "rollout"
                /\ UNCHANGED <<tree, expanded>>
           ELSE IF tree[node].children = <<>>
           THEN IF ~expand_asserts(tree, node)
                THEN \* an assertion of expand fails
                     /\ pc' = "panic"
                     /\ UNCHANGED <<tree, expanded, leaf_node, current_node,
                                    current_state>>
                ELSE /\ tree' = expand(tree, node)
                     /\ expanded' = expanded \cup {node}
                     /\ IF best_child(tree', node) = None
                        THEN \* the expect() of best_child fails
                             /\ pc' = "panic"
                             /\ UNCHANGED <<leaf_node, current_node, current_state>>
                        ELSE /\ leaf_node' = best_child(tree', node)
                             /\ current_node' = None
                             /\ current_state' = Some(tree'[leaf_node'[1]].state)
                             /\ pc' = "rollout"
           ELSE /\ current_node' = best_child(tree, node)
                /\ UNCHANGED <<tree, expanded, leaf_node, current_state, pc>>
    /\ UNCHANGED <<rules, n_simulations, sim, result, current_node_option,
                   current_result, play_action, current_pos>>

\* rollout: one iteration of the while loop, sampling one action
RolloutStep ==
    /\ pc = "rollout"
    /\ ~is_terminal(current_state[1])
    /\ LET actions == get_legal_actions(current_state[1])
           weights == get_policy(current_state[1], actions)
       IN  IF ~policy_sums_to_one(weights) \/ sample_indices(weights) = {}
           THEN pc' = "panic" /\ UNCHANGED current_state
           ELSE /\ \E i \in sample_indices(weights) :
                      current_state' = Some(get_next_state(current_state[1], actions[i]))
                /\ UNCHANGED pc
    /\ UNCHANGED <<rules, tree, n_simulations, sim, current_node, leaf_node,
                   result, current_node_option, current_result, play_action,
                   current_pos, expanded>>

\* rollout: the loop has ended, the result is returned and backpropagate begins
RolloutReturn ==
    /\ pc = "rollout"
    /\ is_terminal(current_state[1])
    /\ result' = rollout_result(tree[leaf_node[1]], current_state[1])
    /\ current_state' = None
    /\ current_node_option' = leaf_node
    /\ current_result' = result'
    /\ pc' = "backpropagate"
    /\ UNCHANGED <<rules, tree, n_simulations, sim, current_node, leaf_node,
                   play_action, current_pos, expanded>>

\* backpropagate with an if-let in place of the while-let: the leaf is
\* updated and the function returns
BackpropagateStep_leaf_only ==
    /\ pc = "backpropagate"
    /\ current_node_option # None
    /\ LET node == current_node_option[1]
       IN  tree' = [tree EXCEPT ![node] = backpropagate_node(tree[node], current_result)]
    /\ current_node_option' = None
    /\ current_result' = 0
    /\ pc' = "best_action"
    /\ sim' = sim + 1
    /\ leaf_node' = None
    /\ result' = 0
    /\ UNCHANGED <<rules, n_simulations, current_node, current_state,
                   play_action, current_pos, expanded>>

\* backpropagate: one iteration of the while-let loop; after the node without
\* a parent the loop ends and the iteration of best_action is complete
BackpropagateStep ==
    /\ pc = "backpropagate"
    /\ current_node_option # None
    /\ LET node == current_node_option[1]
       IN  /\ tree' = [tree EXCEPT ![node] = backpropagate_node(tree[node], current_result)]
           /\ IF tree[node].parent # None
              THEN /\ current_node_option' = tree[node].parent
                   /\ current_result' = flip(current_result)
                   /\ UNCHANGED <<pc, sim, leaf_node, result>>
              ELSE \* backpropagate returns and its locals are gone
                   /\ current_node_option' = None
                   /\ current_result' = 0
                   /\ pc' = "best_action"
                   /\ sim' = sim + 1
                   /\ leaf_node' = None
                   /\ result' = 0
    /\ UNCHANGED <<rules, n_simulations, current_node, current_state,
                   play_action, current_pos, expanded>>

\* best_action: the for loop has ended, the action is chosen and returned
ReturnBestAction ==
    /\ pc = "best_action"
    /\ sim >= n_simulations
    /\ IF best_action_value(tree, root) = None
       THEN pc' = "panic" /\ UNCHANGED play_action
       ELSE /\ play_action' = best_action_value(tree, root)
            /\ pc' = "returned"
    /\ UNCHANGED <<rules, tree, n_simulations, sim, locals, current_pos, expanded>>

(***************************************************************************)
(* The search engine: one call best_action(root, n_simulations) on a       *)
(* freshly constructed root.  The root state is any non-terminal state of  *)
(* tic-tac-toe that legal play reaches and that has at most MaxEmpty empty *)
(* cells; n_simulations is any number in 1..MaxSimulations.                *)
(***************************************************************************)
MaxEmpty == 3
MaxSimulations == 4

\* the states reached from the empty board by k legal moves
T_after[k \in 0..9] ==
    IF k = 0 THEN {T_new}
    ELSE UNION {{T_get_next_state(s, a) : a \in Range(T_get_legal_actions(s))} :
                   s \in {s \in T_after[k - 1] : ~T_is_terminal(s)}}

Roots ==
    UNION {{s \in T_after[9 - e] : ~T_is_terminal(s)} : e \in 1..MaxEmpty}

Init ==
    /\ ttt = T_new
    /\ c4 = C_new
    /\ c4moves = 0
    /\ \E s \in Roots : tree = (root :> Node_new(s, None, None))
    /\ n_simulations \in 1..MaxSimulations
    /\ pc = "best_action"
    /\ sim = 0
    /\ current_node = None
    /\ leaf_node = None
    /\ current_state = None
    /\ result = 0
    /\ current_node_option = None
    /\ current_result = 0
    /\ play_action = None
    /\ current_pos = None
    /\ expanded = {}

Next ==
    \/ StartSimulation
    \/ SelectNodeStep
    \/ RolloutStep
    \/ RolloutReturn
    \/ BackpropagateStep
    \/ ReturnBestAction

Spec == Init /\ [][Next]_vars

(***************************************************************************)
(* Node::rollout on its own: the rollout of a node holding any state that  *)
(* legal play of tic-tac-toe reaches, terminal or not.  rollout is a       *)
(* sequential loop without suspension points, so a step of it that can be  *)
(* taken is taken.                                                         *)
(***************************************************************************)
InitRollout ==
    /\ ttt = T_new
    /\ c4 = C_new
    /\ c4moves = 0
    /\ tree = <<>>
    /\ n_simulations = 0
    /\ pc = "caller"
    /\ sim = 0
    /\ current_node = None
    /\ leaf_node = None
    /\ current_state = None
    /\ result = 0
    /\ current_node_option = None
    /\ current_result = 0
    /\ play_action = None
    /\ current_pos = None
    /\ expanded = {}

\* rollout is called on a node (line 152) and clones its state (line 113)
CallRollout ==
    /\ pc = "caller"
    /\ \E k \in 0..9 : \E s \in T_after[k] :
          /\ tree' = (root :> Node_new(s, None, None))
          /\ current_state' = Some(s)
    /\ leaf_node' = Some(root)
    /\ pc' = "rollout"
    /\ UNCHANGED <<rules, n_simulations, sim, current_node, result,
                   current_node_option, current_result, play_action,
                   current_pos, expanded>>

NextRollout ==
    \/ CallRollout
    \/ RolloutStep
    \/ RolloutReturn

SpecRollout ==
    InitRollout /\ [][NextRollout]_vars
        /\ WF_vars(RolloutStep \/ RolloutReturn)

(***************************************************************************)
(* ttt.rs play: the game loop, the human playing X with the cursor and the *)
(* search engine playing O.  The loop of connect4.rs play (lines 127-166)  *)
(* is the same, statement for statement, over the other State.  The        *)
(* simulation budget of the call at line 138 is PlaySimulations here.      *)
(***************************************************************************)
PlaySimulations == 3

Keys == {"Up", "Down", "Left", "Right", "Enter", "Esc", "Other"}

\* play with the root replaced by the child of the move, statistics and all
\* (the tree reused across moves)
play_commit_reuse(t, a) ==
    LET kept == {n \in DOMAIN t : Len(n) = 1 /\ t[n].parent_action = Some(a)}
    IN  IF kept = {}
        THEN (root :> Node_new(get_next_state(t[root].state, a), None, Some(a)))
        ELSE (root :> [t[CHOOSE n \in kept : TRUE]
                          EXCEPT !.parent = None, !.children = <<>>])

\* play handing the old root to Node::new as the parent of the new root
play_commit_keeps_parent(t, a) ==
    (root :> Node_new(get_next_state(t[root].state, a), Some(root), Some(a)))

\* play, lines 128-129 and 139-140: the tree after a move is committed
play_commit(t, a) ==
    (root :> Node_new(get_next_state(t[root].state, a), None, Some(a)))

InitPlay ==
    /\ ttt = T_new
    /\ c4 = C_new
    /\ c4moves = 0
    /\ tree = (root :> Node_new(T_new, None, None))
    /\ current_pos = <<0, 0>>
    /\ pc = "play"
    /\ n_simulations = 0
    /\ sim = 0
    /\ current_node = None
    /\ leaf_node = None
    /\ current_state = None
    /\ result = 0
    /\ current_node_option = None
    /\ current_result = 0
    /\ play_action = None
    /\ expanded = {}

\* play, line 114: the game is over and the loop is left
PlayGameOver ==
    /\ pc = "play"
    /\ T_is_terminal(tree[root].state)
    /\ pc' = "over"
    /\ UNCHANGED <<rules, tree, n_simulations, sim, locals, play_action,
                   current_pos, expanded>>

\* play, lines 118-135: the human's turn handles one key event
HumanTurn ==
    /\ pc = "play"
    /\ ~T_is_terminal(tree[root].state)
    /\ tree[root].state.player = "X"
    /\ \E key \in Keys :
          CASE key = "Up" ->
                  /\ current_pos' = IF current_pos[1] > 0
                                    THEN <<current_pos[1] - 1, current_pos[2]>>
                                    ELSE current_pos
                  /\ UNCHANGED <<tree, pc>>
            [] key = "Down" ->
                  /\ current_pos' = IF current_pos[1] < 2
                                    THEN <<current_pos[1] + 1, current_pos[2]>>
                                    ELSE current_pos
                  /\ UNCHANGED <<tree, pc>>
            [] key = "Left" ->
                  /\ current_pos' = IF current_pos[2] > 0
                                    THEN <<current_pos[1], current_pos[2] - 1>>
                                    ELSE current_pos
                  /\ UNCHANGED <<tree, pc>>
            [] key = "Right" ->
                  /\ current_pos' = IF current_pos[2] < 2
                                    THEN <<current_pos[1], current_pos[2] + 1>>
                                    ELSE current_pos
                  /\ UNCHANGED <<tree, pc>>
            [] key = "Enter" ->
                  /\ tree' = IF current_pos \in Range(T_get_legal_actions(tree[root].state))
                             THEN play_commit(tree, current_pos)
                             ELSE tree
                  /\ UNCHANGED <<current_pos, pc>>
            [] key = "Esc" ->
                  /\ pc' = "over"
                  /\ UNCHANGED <<tree, current_pos>>
            [] OTHER ->
                  UNCHANGED <<tree, current_pos, pc>>
    /\ UNCHANGED <<rules, n_simulations, sim, locals, play_action, expanded>>

\* play, line 138: the engine's turn calls best_action(&root, budget)
AiTurnCall ==
    /\ pc = "play"
    /\ ~T_is_terminal(tree[root].state)
    /\ tree[root].state.player # "X"
    /\ n_simulations' = PlaySimulations
    /\ sim' = 0
    /\ pc' = "best_action"
    /\ UNCHANGED <<rules, tree, locals, play_action, current_pos, expanded>>

\* play, lines 139-140: the engine's move is committed
AiTurnCommit ==
    /\ pc = "returned"
    /\ tree' = play_commit(tree, play_action[1])
    /\ pc' = "play"
    /\ play_action' = None
    /\ n_simulations' = 0
    /\ sim' = 0
    /\ expanded' = {}
    /\ UNCHANGED <<rules, locals, current_pos>>

NextPlay ==
    \/ PlayGameOver
    \/ HumanTurn
    \/ AiTurnCall
    \/ StartSimulation
    \/ SelectNodeStep
    \/ RolloutStep
    \/ RolloutReturn
    \/ BackpropagateStep
    \/ ReturnBestAction
    \/ AiTurnCommit

SpecPlay == InitPlay /\ [][NextPlay]_vars

(***************************************************************************)
(* Tic-tac-toe played by its rules: a move is applied only to a            *)
(* non-terminal state and only on a legal cell (ttt.rs play, lines 114 and *)
(* 127; mcts.rs rollout, line 114, and expand, lines 95 and 99).           *)
(***************************************************************************)
InitTtt ==
    /\ ttt = T_new
    /\ c4 = C_new
    /\ c4moves = 0
    /\ tree = <<>>
    /\ pc = "rules"
    /\ n_simulations = 0
    /\ sim = 0
    /\ current_node = None
    /\ leaf_node = None
    /\ current_state = None
    /\ result = 0
    /\ current_node_option = None
    /\ current_result = 0
    /\ play_action = None
    /\ current_pos = None
    /\ expanded = {}

TttMove ==
    /\ ~T_is_terminal(ttt)
    /\ \E a \in Range(T_get_legal_actions(ttt)) :
          ttt' = T_get_next_state(ttt, a)
    /\ UNCHANGED <<c4, c4moves>>
    /\ UNCHANGED <<tree, pc, n_simulations, sim, locals, play_action, current_pos, expanded>>

NextTtt == TttMove

SpecTtt == InitTtt /\ [][NextTtt]_vars

(***************************************************************************)
(* Connect 4 played by its rules from the empty board, up to MaxC4Moves    *)
(* moves: a move is applied only to a non-terminal state and only in a     *)
(* legal column (connect4.rs play, lines 141 and 152; mcts.rs rollout and  *)
(* expand).                                                                *)
(***************************************************************************)
MaxC4Moves == 6

InitC4 ==
    /\ ttt = T_new
    /\ c4 = C_new
    /\ c4moves = 0
    /\ tree = <<>>
    /\ pc = "rules"
    /\ n_simulations = 0
    /\ sim = 0
    /\ current_node = None
    /\ leaf_node = None
    /\ current_state = None
    /\ result = 0
    /\ current_node_option = None
    /\ current_result = 0
    /\ play_action = None
    /\ current_pos = None
    /\ expanded = {}

C4Move ==
    /\ c4moves < MaxC4Moves
    /\ ~C_is_terminal(c4)
    /\ \E a \in Range(C_get_legal_actions(c4)) :
          c4' = C_get_next_state(c4, a)
    /\ c4moves' = c4moves + 1
    /\ UNCHANGED ttt
    /\ UNCHANGED <<tree, pc, n_simulations, sim, locals, play_action, current_pos, expanded>>

NextC4 == C4Move

SpecC4 == InitC4 /\ [][NextC4]_vars

(***************************************************************************)
(* The search engine on Connect 4: the game is played by its rules from    *)
(* the empty board, up to MaxC4Moves moves, and best_action is then called *)
(* on a fresh root holding the state (connect4.rs play, line 163), with    *)
(* any budget in 1..MaxSimulations, when the state is not terminal and the *)
(* side to move has a column that wins at once.  From such a root every    *)
(* selected leaf is terminal (C20_WinningColumn states it), so the loop of *)
(* rollout is never entered and RolloutStep is not among the steps.        *)
(***************************************************************************)

\* the column action completes a line for the side to move in s
C_wins(s, action) ==
    C_get_result(C_get_next_state(s, action)) # 0

\* the moves before the call
WinSetup ==
    /\ pc = "rules"
    /\ C4Move

\* connect4.rs play, line 163, on a root built as at lines 127, 154 and 165
WinCall ==
    /\ pc = "rules"
    /\ ~C_is_terminal(c4)
    /\ \E a \in Range(C_get_legal_actions(c4)) : C_wins(c4, a)
    /\ tree' = (root :> Node_new(c4, None, None))
    /\ n_simulations' \in 1..MaxSimulations
    /\ sim' = 0
    /\ pc' = "best_action"
    /\ UNCHANGED <<rules, locals, play_action, current_pos, expanded>>

NextWin ==
    \/ WinSetup
    \/ WinCall
    \/ StartSimulation
    \/ SelectNodeStep
    \/ RolloutReturn
    \/ BackpropagateStep
    \/ ReturnBestAction

SpecWin == InitC4 /\ [][NextWin]_vars

(***************************************************************************)
(* Properties of the search engine (Spec)                                  *)
(***************************************************************************)

\* the eight lines of the board, as sets of cells
T_lines ==
    {{<<i, j>> : j \in 0..2} : i \in 0..2} \cup
    {{<<i, j>> : i \in 0..2} : j \in 0..2} \cup
    {{<<i, i>> : i \in 0..2}, {<<i, 2 - i>> : i \in 0..2}}

T_has_line(s, mark) ==
    \E l \in T_lines : \A c \in l : s.board[c[1]][c[2]] = mark

\* the sum of the values of a result-count map
results_total(results) ==
    get_or(results, 1, 0) + get_or(results, 0, 0) + get_or(results, -1, 0)

\* C1: when best_action(root, n) returns on a fresh non-terminal root,
\* root.visit_count = n: between simulations root.visit_count is the number
\* of simulations completed, and no simulation aborts.
C1_RootVisitCount ==
    /\ pc # "panic"
    /\ pc = "best_action" => tree[root].visit_count = sim
    /\ pc = "returned" => tree[root].visit_count = n_simulations

C1_Witness ==
    /\ pc = "returned"
    /\ n_simulations >= 3
    /\ tree[root].visit_count = n_simulations

\* C2: every node of every reachable tree has visit_count equal to the sum
\* of its result counts over the keys +1, 0, -1, it has no other key, and
\* every result count is >= 0.
C2_VisitsAreResults ==
    \A n \in DOMAIN tree :
        /\ DOMAIN tree[n].results \subseteq {-1, 0, 1}
        /\ \A k \in DOMAIN tree[n].results : tree[n].results[k] >= 0
        /\ tree[n].visit_count = results_total(tree[n].results)

C2_Witness ==
    \E n \in DOMAIN tree :
        /\ tree[n].visit_count >= 3
        /\ Cardinality(DOMAIN tree[n].results) >= 2
        /\ \E k \in DOMAIN tree[n].results : tree[n].results[k] >= 2

\* C3: best_action returns the parent_action of an immediate child of root
\* whose visit_count is >= that of every other child of root, and that action
\* is a legal action of the root's state.
C3_BestActionIsMostVisited ==
    pc = "returned" =>
        /\ play_action # None
        /\ \E i \in 1..Len(tree[root].children) :
              LET child == tree[tree[root].children[i]]
              IN  /\ child.parent_action = play_action
                  /\ \A j \in 1..Len(tree[root].children) :
                        child.visit_count >= tree[tree[root].children[j]].visit_count
        /\ play_action[1] \in Range(T_get_legal_actions(tree[root].state))

\* best_action has returned and the children of root differ in visit_count
C3_Witness ==
    /\ pc = "returned"
    /\ \E i \in 1..Len(tree[root].children) : \E j \in 1..Len(tree[root].children) :
          /\ tree[tree[root].children[i]].visit_count
                > tree[tree[root].children[j]].visit_count
          /\ tree[tree[root].children[i]].parent_action = play_action

sign(e) == IF e % 2 = 0 THEN 1 ELSE -1

\* C4: backpropagation of the rollout result r from the leaf at depth d
\* visits the path nodes at depth d, d-1, ..., 0 in turn and adds one to the
\* count of r * (-1)^(d-k) in the node at depth k, and to no other count.
C4_BackpropagationSigns ==
    [][/\ pc = "rollout" /\ pc' = "backpropagate" =>
            current_node_option' = leaf_node /\ leaf_node' = leaf_node
       /\ pc = "backpropagate" =>
            LET leaf == leaf_node[1]
                node == current_node_option[1]
                d == Len(leaf)
                k == Len(node)
                recorded == result * sign(d - k)
            IN  /\ node = SubSeq(leaf, 1, k)
                /\ \A key \in {-1, 0, 1} :
                      get_or(tree'[node].results, key, 0) =
                          get_or(tree[node].results, key, 0)
                              + (IF key = recorded THEN 1 ELSE 0)
                /\ IF k > 0
                   THEN /\ pc' = "backpropagate"
                        /\ current_node_option' = Some(SubSeq(leaf, 1, k - 1))
                   ELSE pc' = "best_action"
      ]_vars

\* backpropagation of a decided result from a leaf at depth 2 has reached
\* the root
C4_Witness ==
    /\ pc = "backpropagate"
    /\ Len(leaf_node[1]) = 2
    /\ result # 0
    /\ current_node_option = Some(root)
    /\ get_or(tree[leaf_node[1]].results, result, 0) >= 1

\* C5: every rollout terminates: from any state of tic-tac-toe, whatever
\* actions are sampled, the loop of rollout reaches a terminal state and
\* rollout returns.
C5_RolloutTerminates ==
    (pc = "rollout") ~> (pc = "backpropagate")

\* a rollout that sampled at least two moves has reached a terminal state
C5_Witness ==
    /\ pc = "rollout"
    /\ T_is_terminal(current_state[1])
    /\ \E c \in Range(T_cells) : \E d \in Range(T_cells) :
          /\ c # d
          /\ tree[leaf_node[1]].state.board[c[1]][c[2]] = " "
          /\ tree[leaf_node[1]].state.board[d[1]][d[2]] = " "
          /\ current_state[1].board[c[1]][c[2]] # " "
          /\ current_state[1].board[d[1]][d[2]] # " "

\* C6: once the children of a node are non-empty they never change: no
\* later step of any simulation adds, removes or replaces a child.
C6_ChildrenNeverRepopulated ==
    [][\A n \in DOMAIN tree :
          tree[n].children # <<>> =>
              /\ n \in DOMAIN tree'
              /\ tree'[n].children = tree[n].children
              /\ n \notin expanded' \ expanded
      ]_vars

\* an expanded node was passed by a later simulation that expanded a node
\* below it
C6_Witness ==
    /\ tree[root].children # <<>>
    /\ \E n \in DOMAIN tree : n # root /\ tree[n].children # <<>>
    /\ pc = "best_action"

\* C7: a node has children if and only if it is non-terminal and expand has
\* run on it; a terminal node never has children (stated by contraposition:
\* a node that has children, or that expand has run on, is non-terminal).
C7_ChildrenIffExpanded ==
    \A n \in DOMAIN tree :
        /\ tree[n].children # <<>> <=> (n \in expanded /\ ~T_is_terminal(tree[n].state))
        /\ (tree[n].children # <<>> \/ n \in expanded) => ~T_is_terminal(tree[n].state)

\* the tree holds a terminal node that a simulation selected, an expanded
\* node below the root and a non-terminal node not yet expanded
C7_Witness ==
    /\ \E n \in DOMAIN tree :
          T_is_terminal(tree[n].state) /\ tree[n].visit_count > 0 /\ tree[n].children = <<>>
    /\ \E n \in DOMAIN tree : n # root /\ n \in expanded /\ tree[n].children # <<>>
    /\ \E n \in DOMAIN tree :
          ~T_is_terminal(tree[n].state) /\ n \notin expanded /\ tree[n].children = <<>>

\* node a is node b or an ancestor of node b
on_path(a, b) ==
    Len(a) <= Len(b) /\ a = SubSeq(b, 1, Len(a))

\* the fields of a node that are set at construction
constructed(node) ==
    <<node.state, node.parent, node.parent_action, node.action_probs>>

\* C13: a simulation changes statistics only along one path: each step of
\* backpropagate adds exactly 1 to the visit_count and to the result counts
\* of the one node it visits, which is the selected leaf or an ancestor of
\* it, each of them once from the leaf up to the root, and changes no other
\* node; rollout changes no node; an expansion adds the children of the
\* expanded node and changes nothing else; and no step changes the state,
\* parent, parent_action or action_probs of a node.
C13_OnlyThePathChanges ==
    [][/\ \A n \in DOMAIN tree :
             /\ n \in DOMAIN tree'
             /\ constructed(tree'[n]) = constructed(tree[n])
       /\ pc \in {"rollout", "best_action"} => tree' = tree
       /\ pc = "rollout" /\ pc' = "backpropagate" => current_node_option' = leaf_node
       /\ pc = "select_node" =>
             IF expanded' = expanded
             THEN tree' = tree
             ELSE \E x \in DOMAIN tree :
                     /\ expanded' = expanded \cup {x}
                     /\ DOMAIN tree' = DOMAIN tree \cup Range(tree'[x].children)
                     /\ tree'[x] = [tree[x] EXCEPT !.children = tree'[x].children]
                     /\ \A n \in DOMAIN tree \ {x} : tree'[n] = tree[n]
       /\ pc = "backpropagate" =>
             LET node == current_node_option[1]
             IN  /\ on_path(node, leaf_node[1])
                 /\ DOMAIN tree' = DOMAIN tree
                 /\ tree'[node].visit_count = tree[node].visit_count + 1
                 /\ results_total(tree'[node].results) = results_total(tree[node].results) + 1
                 /\ tree'[node].children = tree[node].children
                 /\ \A n \in DOMAIN tree \ {node} : tree'[n] = tree[n]
                 /\ current_node_option' = tree[node].parent
                 /\ (pc' = "best_action") <=> (node = root)
      ]_vars

\* backpropagation from a leaf at depth 2 has reached the root while the
\* tree holds visited nodes that are not on the path
C13_Witness ==
    /\ pc = "backpropagate"
    /\ Len(leaf_node[1]) = 2
    /\ current_node_option = Some(root)
    /\ \E n \in DOMAIN tree :
          ~on_path(n, leaf_node[1]) /\ tree[n].visit_count > 0

\* C16: a run of best_action on a non-terminal root of tic-tac-toe (every
\* non-terminal state has a legal action of prior above 1e-6 and a policy
\* that sums to 1) never reaches a fatal condition: expand is invoked only
\* on a non-terminal node without children and leaves it with at least one
\* child, best_child is invoked only on a node with at least one child, and
\* the policy weights of every state a rollout samples from sum to 1.
C16_NoFatalCondition ==
    /\ [](pc \notin {"panic"})
    /\ [][/\ expanded' # expanded =>
                \E x \in DOMAIN tree :
                    /\ expanded' = expanded \cup {x}
                    /\ ~T_is_terminal(tree[x].state)
                    /\ tree[x].children = <<>>
                    /\ tree'[x].children # <<>>
          /\ pc = "select_node" /\ ~T_is_terminal(tree[current_node[1]].state) =>
                /\ tree'[current_node[1]].children # <<>>
                /\ IF pc' = "rollout"
                   THEN leaf_node'[1] \in Range(tree'[current_node[1]].children)
                   ELSE current_node'[1] \in Range(tree[current_node[1]].children)
          /\ pc = "rollout" /\ ~T_is_terminal(current_state[1]) =>
                LET actions == T_get_legal_actions(current_state[1])
                    weights == T_get_policy(current_state[1], actions)
                IN  /\ abs(seq_sum(weights) - Scale) < Scale \div 1000000
                    /\ \E i \in DOMAIN weights : weights[i] > Scale \div 1000000
                    /\ pc' = "rollout"
      ]_vars

\* best_action has returned after simulations that expanded a node below the
\* root, selected a terminal node and rolled out a non-terminal one
C16_Witness ==
    /\ pc = "returned"
    /\ n_simulations >= 3
    /\ \E n \in DOMAIN tree : n # root /\ tree[n].children # <<>>
    /\ \E n \in DOMAIN tree : T_is_terminal(tree[n].state) /\ tree[n].visit_count > 0
    /\ \E n \in DOMAIN tree :
          /\ ~T_is_terminal(tree[n].state)
          /\ tree[n].visit_count > 0
          /\ tree[n].children = <<>>

RECURSIVE children_visits(_, _)
\* the sum of the visit_counts of the nodes kids of tree t
children_visits(t, kids) ==
    IF kids = <<>> THEN 0
    ELSE t[kids[1]].visit_count + children_visits(t, Tail(kids))

\* C18: between simulations, for every node X with children, X.visit_count
\* minus the sum of its children's visit_counts is 0 or 1, and it is 1 only
\* for a node that was a selected leaf before it was expanded (a node below
\* the root); for the root it is 0, so when best_action(root, n) returns the
\* visit_counts of the root's children sum to n.
C18_VisitsOfChildren ==
    /\ pc \in {"best_action", "returned"} =>
          \A x \in DOMAIN tree :
              tree[x].children # <<>> =>
                  LET rest == tree[x].visit_count
                                 - children_visits(tree, tree[x].children)
                  IN  /\ rest \in {0, 1}
                      /\ rest = 1 => x # root
                      /\ x = root => rest = 0
    /\ pc = "returned" =>
          children_visits(tree, tree[root].children) = n_simulations

\* best_action has returned; a node below the root was a leaf once and was
\* expanded by a later simulation, so it has one visit more than its children
C18_Witness ==
    /\ pc = "returned"
    /\ n_simulations >= 3
    /\ \E x \in DOMAIN tree :
          /\ x # root
          /\ tree[x].children # <<>>
          /\ tree[x].visit_count = 1 + children_visits(tree, tree[x].children)
          /\ tree[x].visit_count >= 2

\* the nodes of tree t that have children
with_children(t) ==
    {n \in DOMAIN t : t[n].children # <<>>}

scores_of_children(t, node) ==
    [i \in 1..Len(t[node].children) |->
        uct_score(t, t[node].children[i], t[node].visit_count)]

\* the child that the call of best_child in this step of select_node returns
chosen_child ==
    IF pc' = "rollout" THEN leaf_node'[1] ELSE current_node'[1]

\* C14 as claimed: when several children of a node have the same maximal
\* selection score best_child returns the first of them in children order,
\* and on the first simulation of a fresh root, where all children tie, the
\* first child of the root is selected.
C14_TieGoesToFirst ==
    [][pc = "select_node" /\ ~T_is_terminal(tree[current_node[1]].state) =>
          LET node == current_node[1]
              kids == tree'[node].children
              keys == scores_of_children(tree', node)
          IN  \E i \in 1..Len(kids) :
                  /\ chosen_child = kids[i]
                  /\ \A j \in 1..Len(kids) : keys[j] <= keys[i]
                  /\ \A j \in 1..Len(kids) : j < i => keys[j] < keys[i]
                  /\ (node = root /\ sim = 0) => i = 1
      ]_vars

\* C14, amended: when several children of a node have the same maximal
\* selection score best_child returns the last of them in children order,
\* and on the first simulation of a fresh root, where the parent's N is 0
\* and all children tie, the last child of the root is selected.
C14_TieGoesToLast ==
    [][pc = "select_node" /\ ~T_is_terminal(tree[current_node[1]].state) =>
          LET node == current_node[1]
              kids == tree'[node].children
              keys == scores_of_children(tree', node)
          IN  \E i \in 1..Len(kids) :
                  /\ chosen_child = kids[i]
                  /\ \A j \in 1..Len(kids) : keys[j] <= keys[i]
                  /\ \A j \in 1..Len(kids) : j > i => keys[j] < keys[i]
                  /\ (node = root /\ sim = 0) =>
                        /\ tree'[node].visit_count = 0
                        /\ \A j \in 1..Len(kids) : keys[j] = keys[i]
                        /\ i = Len(kids)
      ]_vars

\* the first simulation of a fresh root with three children has selected the
\* third of them
C14_Witness ==
    /\ pc = "rollout"
    /\ sim = 0
    /\ Len(tree[root].children) = 3
    /\ leaf_node = Some(tree[root].children[3])

\* C15 as claimed: an unvisited child has Q = -1 and its value_score is less
\* than or equal to the value_score of every child with visit_count > 0.
C15_UnvisitedIsLowest ==
    \A x \in DOMAIN tree :
        \A a \in Range(tree[x].children) : \A b \in Range(tree[x].children) :
            (tree[a].visit_count = 0 /\ tree[b].visit_count > 0) =>
                /\ q(tree[a]) = <<-1, 1>>
                /\ value_score(tree[a]) <= value_score(tree[b])

\* C15, amended: an unvisited child has Q = -1 and therefore the most
\* optimistic value score for the parent's side: its value_score is 1, which
\* is greater than or equal to the value_score of every child with
\* visit_count > 0, whatever that child's win/loss/draw counts.
C15_UnvisitedIsHighest ==
    \A x \in DOMAIN tree :
        tree[x].children # <<>> =>
            LET kids == Range(tree[x].children)
                unvisited == {k \in kids : tree[k].visit_count = 0}
                visited == {value_score(tree[k]) : k \in kids \ unvisited}
            IN  /\ \A a \in unvisited :
                      /\ q(tree[a]) = <<-1, 1>>
                      /\ value_score(tree[a]) = Scale
                      /\ \A v \in visited : value_score(tree[a]) >= v
                /\ \A v \in visited : 0 <= v /\ v <= Scale

\* a node has an unvisited child, a visited child of value_score 0 (every
\* playout through it was won by its player to move) and a visited child
\* of value_score 1
C15_Witness ==
    \E x \in DOMAIN tree :
        \E a \in Range(tree[x].children) :
        \E b \in Range(tree[x].children) :
        \E c \in Range(tree[x].children) :
            /\ tree[a].visit_count = 0
            /\ tree[b].visit_count > 0 /\ value_score(tree[b]) = 0
            /\ tree[c].visit_count > 0 /\ value_score(tree[c]) = Scale

(***************************************************************************)
(* Properties of Node::rollout (SpecRollout)                               *)
(***************************************************************************)

\* C11: rollout returns the terminal state's result unchanged when the
\* terminal state's player to move is the leaf's player to move and negated
\* otherwise; so it returns +1 exactly when the playout ends with a line of
\* the leaf's player to move, -1 exactly when it ends with a line of the
\* opponent, and 0 exactly when it ends without a line, also when the leaf
\* itself is terminal and nothing is sampled.
C11_RolloutPerspective ==
    [][pc = "rollout" /\ pc' = "backpropagate" =>
          LET leaf == tree[leaf_node[1]].state
              last == current_state[1]
              me == leaf.player
              opponent == IF me = "X" THEN "O" ELSE "X"
          IN  /\ T_is_terminal(last)
              /\ result' = (IF T_get_player_turn(last) = T_get_player_turn(leaf)
                            THEN T_get_result(last) ELSE 0 - T_get_result(last))
              /\ result' = 1 <=> T_has_line(last, me)
              /\ result' = -1 <=> T_has_line(last, opponent)
              /\ result' = 0 <=> ~T_has_line(last, "X") /\ ~T_has_line(last, "O")
      ]_vars

\* the rollout of a non-terminal leaf has returned +1: the playout ended
\* with the opponent to move and the result was negated
C11_Witness ==
    /\ pc = "backpropagate"
    /\ result = 1
    /\ current_node_option = leaf_node
    /\ ~T_is_terminal(tree[leaf_node[1]].state)

(***************************************************************************)
(* Properties of the rules of tic-tac-toe (SpecTtt)                        *)
(***************************************************************************)

T_marks(s) ==
    Cardinality({c \in Range(T_cells) : s.board[c[1]][c[2]] # " "})

\* C8: in every state reached from the empty board by legal moves,
\* get_result() is -1 exactly when some row, column or diagonal holds three
\* equal marks and 0 otherwise; when it is -1 every completed line belongs to
\* the player who is not to move, and is_terminal() is true.
C8_TttResult ==
    LET mover == ttt.player
        other == IF ttt.player = "X" THEN "O" ELSE "X"
    IN  /\ T_get_result(ttt) = (IF T_has_line(ttt, "X") \/ T_has_line(ttt, "O") THEN -1 ELSE 0)
        /\ T_get_result(ttt) = -1 =>
              /\ T_has_line(ttt, other)
              /\ ~T_has_line(ttt, mover)
              /\ T_is_terminal(ttt)

\* X, O, X, O, X with X's three marks on one line: result -1 with O to move
C8_Witness ==
    /\ T_marks(ttt) = 5
    /\ T_has_line(ttt, "X")
    /\ ttt.player = "O"
    /\ T_get_result(ttt) = -1
    /\ T_is_terminal(ttt)

(***************************************************************************)
(* Properties of the rules of Connect 4 (SpecC4)                           *)
(***************************************************************************)

C_pieces(s) ==
    Cardinality({rc \in (0..5) \X (0..6) : s.board[rc[1]][rc[2]] # " "})

\* pieces of every column are stacked from row 0 without a gap
C_stacked(s) ==
    \A c \in 0..6 : \A r \in 1..5 :
        s.board[r][c] # " " => s.board[r - 1][c] # " "

\* legal_actions() is the ascending list of the columns with an empty cell
C_legal_is_open(s) ==
    LET legal == C_get_legal_actions(s)
    IN  /\ Range(legal) = {c \in 0..6 : \E r \in 0..5 : s.board[r][c] = " "}
        /\ \A i \in 1..Len(legal) : \A j \in 1..Len(legal) :
              i < j => legal[i] < legal[j]

\* s2 is s with one piece of the player to move added at the lowest empty
\* cell of a legal column
C_one_piece_dropped(s, s2) ==
    \E c \in Range(C_get_legal_actions(s)) : \E r \in 0..5 :
        /\ s.board[r][c] = " "
        /\ \A lo \in 0..5 : lo < r => s.board[lo][c] # " "
        /\ s2.board[r][c] = s.player
        /\ \A o \in 0..5 : \A d \in 0..6 :
              <<o, d>> # <<r, c>> => s2.board[o][d] = s.board[o][d]
        /\ C_pieces(s2) = C_pieces(s) + 1
        /\ s2.player # s.player

\* C9: in every Connect 4 state reached from the empty board by legal moves
\* the pieces of each column are stacked contiguously from row 0 and
\* legal_actions() is exactly the set of columns that still have an empty
\* cell (a full column is never legal); and applying a legal column adds
\* exactly one piece, at the lowest empty cell of that column.
C9_Connect4Columns ==
    /\ [](C_stacked(c4) /\ C_legal_is_open(c4))
    /\ [][c4' # c4 => C_one_piece_dropped(c4, c4')]_vars

\* a column is completely filled and its index is absent from legal_actions()
C9_Witness ==
    \E c \in 0..6 :
        /\ \A r \in 0..5 : c4.board[r][c] # " "
        /\ c \notin Range(C_get_legal_actions(c4))
        /\ c4moves = 6

(***************************************************************************)
(* Properties of the game loop (SpecPlay)                                  *)
(***************************************************************************)

\* a node without parent, children or statistics
fresh(node) ==
    /\ node.parent = None
    /\ node.children = <<>>
    /\ node.visit_count = 0
    /\ DOMAIN node.results = {}

\* C10: every committed move, human or engine, replaces the root by a new
\* node without parent, children or statistics, built from the successor
\* state of a legal action; so at the top of the loop and at every call of
\* best_action the tree is one fresh root, and every call ends with
\* root.visit_count equal to the simulation budget.
C10_MoveDiscardsStatistics ==
    /\ [](/\ pc = "play" => DOMAIN tree = {root} /\ fresh(tree[root])
          /\ (pc = "best_action" /\ sim = 0) => DOMAIN tree = {root} /\ fresh(tree[root])
          /\ pc = "returned" =>
                /\ n_simulations = PlaySimulations
                /\ tree[root].visit_count = PlaySimulations)
    /\ [][tree'[root].state # tree[root].state =>
            /\ pc \in {"play", "returned"}
            /\ pc = "returned" =>
                  tree'[root].state = T_get_next_state(tree[root].state, play_action[1])
            /\ \E a \in Range(T_get_legal_actions(tree[root].state)) :
                  /\ tree'[root].state = T_get_next_state(tree[root].state, a)
                  /\ tree'[root].parent_action = Some(a)
            /\ DOMAIN tree' = {root}
            /\ fresh(tree'[root])
      ]_vars

\* the human and then the engine have committed two moves each, the engine's
\* after searches that filled the tree, and the root is fresh again
C10_Witness ==
    /\ pc = "play"
    /\ T_marks(tree[root].state) = 4
    /\ tree[root].state.player = "X"
    /\ fresh(tree[root])
    /\ DOMAIN tree = {root}

\* C17 as claimed: in every state of the game loop the root has neither a
\* parent nor a parent_action, both the initial root and each root rebuilt
\* after a human or AI move.
C17_RootHasNoParentAction ==
    /\ tree[root].parent = None
    /\ tree[root].parent_action = None

\* C17, amended: in every state of the game loop the root has no parent; its
\* parent_action is absent for the initial root only, and the root rebuilt
\* after a human or AI move has the move that was played as parent_action.
C17_RootHasNoParent ==
    LET state == tree[root].state
        mover == IF state.player = "X" THEN "O" ELSE "X"
    IN  /\ tree[root].parent = None
        /\ T_marks(state) = 0 =>
              /\ state = T_new
              /\ tree[root].parent_action = None
        /\ T_marks(state) > 0 =>
              /\ tree[root].parent_action # None
              /\ tree[root].parent_action[1] \in Range(T_cells)
              /\ state.board[tree[root].parent_action[1][1]]
                             [tree[root].parent_action[1][2]] = mover

\* the root was rebuilt after the human's move and again after the engine's
\* move, and records the engine's move as its parent_action
C17_Witness ==
    /\ pc = "play"
    /\ T_marks(tree[root].state) = 2
    /\ tree[root].parent = None
    /\ tree[root].parent_action # None
    /\ tree[root].state.board[tree[root].parent_action[1][1]]
                              [tree[root].parent_action[1][2]] = "O"

(***************************************************************************)
(* Properties of the search engine on Connect 4 (SpecWin)                  *)
(***************************************************************************)

\* C12: expanding a non-terminal node without children creates exactly one
\* child per legal action of the node's state whose prior in the node's
\* action_probs exceeds 1e-6 and none for the other actions, in the order
\* of the legal actions; each child has the state that the action leads to,
\* that action as parent_action (distinct among siblings), the expanded
\* node as parent, visit_count 0, no result counts and no children.
C12_ExpandCreatesChildren ==
    [][expanded' # expanded =>
          \E x \in DOMAIN tree :
              LET state == tree[x].state
                  legal == get_legal_actions(state)
                  likely(a) == tree[x].action_probs[a] > Scale \div 1000000
                  kept == SelectSeq(legal, likely)
                  kids == tree'[x].children
              IN  /\ expanded' = expanded \cup {x}
                  /\ ~is_terminal(state)
                  /\ tree[x].children = <<>>
                  /\ Len(kids) = Len(kept)
                  /\ DOMAIN tree' = DOMAIN tree \cup Range(kids)
                  /\ Range(kids) \cap DOMAIN tree = {}
                  /\ \A i \in 1..Len(kids) :
                        /\ tree'[kids[i]].state = get_next_state(state, kept[i])
                        /\ tree'[kids[i]].parent_action = Some(kept[i])
                        /\ tree'[kids[i]].parent = Some(x)
                        /\ tree'[kids[i]].visit_count = 0
                        /\ DOMAIN tree'[kids[i]].results = {}
                        /\ tree'[kids[i]].children = <<>>
                        /\ \A j \in 1..Len(kids) :
                              i # j => /\ kids[i] # kids[j]
                                       /\ tree'[kids[i]].parent_action
                                             # tree'[kids[j]].parent_action
      ]_vars

\* a root with seven legal columns was expanded and has children for some
\* of them only: the others have a prior below 1e-6
C12_Witness ==
    /\ pc = "rollout"
    /\ root \in expanded
    /\ Len(C_get_legal_actions(tree[root].state)) = 7
    /\ Len(tree[root].children) \in 1..6
    /\ \A i \in 1..Len(tree[root].children) :
          tree[tree[root].children[i]].visit_count = 0

\* C20: when the side to move at a non-terminal root of Connect 4 has a
\* column that wins at once, best_action(root, n) with n >= 1 returns a
\* column that wins at once: every column that does not have the maximal
\* score has a prior below 1e-6, the expansion of the root creates children
\* for the columns of maximal score only, and all of those win; so every
\* selected leaf is terminal.
C20_WinningColumn ==
    LET state == tree[root].state
        legal == C_get_legal_actions(state)
        scored == {<<a, C_score(state, a)>> : a \in Range(legal)}
        top == {p[1] : p \in {p \in scored : \A o \in scored : o[2] <= p[2]}}
    IN  \* the root as constructed, at the call
        /\ (pc = "best_action" /\ sim = 0) =>
              \A a \in Range(legal) :
                  /\ a \in top => C_wins(state, a)
                  /\ a \notin top => tree[root].action_probs[a] < Scale \div 1000000
        \* the root as expanded by the first simulation
        /\ (pc = "rollout" /\ sim = 0) =>
              /\ root \in expanded
              /\ {tree[k].parent_action[1] : k \in Range(tree[root].children)} = top
              /\ \A k \in Range(tree[root].children) :
                    C_wins(state, tree[k].parent_action[1])
        /\ pc = "rollout" => C_is_terminal(current_state[1])
        /\ pc = "returned" =>
              /\ n_simulations >= 1
              /\ play_action # None
              /\ play_action[1] \in Range(legal)
              /\ C_wins(state, play_action[1])
        /\ pc # "panic"

\* best_action has returned a winning column of a root on which another
\* legal column does not win
C20_Witness ==
    /\ pc = "returned"
    /\ n_simulations >= 2
    /\ C_wins(tree[root].state, play_action[1])
    /\ \E a \in Range(C_get_legal_actions(tree[root].state)) :
          ~C_wins(tree[root].state, a)

====
